---- MODULE Spec2Model ----
(***************************************************************************)
(* Model of the two geometry computations of the repository:               *)
(*   - compute_product_metrics (src/src/metrics.py), the footprint         *)
(*     metrics of an image whose scan lines are the product's timestamps;  *)
(*   - the pass-geometry script (src/data/.ipynb_checkpoints/              *)
(*     test_cbor-checkpoint.py), one record per accepted timestamp.        *)
(*                                                                         *)
(* Values.  An optional value (a dict key that may be missing, a field     *)
(* that may be None) is a sequence of length 0 or 1.  A timestamp is a     *)
(* record [k, v]: k is the kind of Python value ("num" a finite number,    *)
(* "nan", "inf", "str" a non-numeric value) and v, for "num", the time in  *)
(* ticks of a quarter second.  Floats are fixed-point integers: lengths in *)
(* whole km or m, areas in whole km2; the model's numbers are chosen so    *)
(* that a non-zero float never rounds to zero.                             *)
(***************************************************************************)
EXTENDS Integers, Sequences

VARIABLES product, footprint, pc, i, records, outcome, exported

vars == <<product, footprint, pc, i, records, outcome, exported>>

(***************************************************************************)
(* Bounds of the model.                                                    *)
(***************************************************************************)
MaxLen == 3

(***************************************************************************)
(* Optional values.                                                        *)
(***************************************************************************)
None == <<>>
Some(x) == <<x>>
IsNone(o) == Len(o) = 0
Get(o) == o[1]

(***************************************************************************)
(* Input values.                                                           *)
(***************************************************************************)
TicksPerSec == 4

Num(v) == [k |-> "num", v |-> v]
NaN == [k |-> "nan", v |-> 0]
Inf == [k |-> "inf", v |-> 0]
Str == [k |-> "str", v |-> 0]

\* 0 s, 0.5 s, -5 s, float('nan'), float('inf'), a string.
TsValues == {Num(0), Num(2), Num(-20), NaN, Inf, Str}

\* A finite non-negative number.
Valid(t) == t.k = "num" /\ t.v >= 0

RECURSIVE SeqsUpTo(_, _)
SeqsUpTo(S, n) ==
    IF n = 0 THEN {<<>>}
    ELSE LET shorter == SeqsUpTo(S, n - 1)
         IN  shorter \cup {Append(s, x) : s \in {t \in shorter : Len(t) = n - 1}, x \in S}

TimestampInputs == {None} \cup {Some(s) : s \in SeqsUpTo(TsValues, MaxLen)}

LineValues == {"absent", "empty", "ok"}
TleInputs ==
    {None} \cup {Some([name |-> n, line1 |-> l1, line2 |-> l2]) :
                    n \in {"absent", "ok"}, l1 \in LineValues, l2 \in LineValues}

WidthValues == {None, Some(0), Some(1000)}
ScanValues == {None, Some(0), Some(90)}
ProjInputs == {[image_width |-> w, scan_angle |-> s] : w \in WidthValues, s \in ScanValues}
NoProj == [image_width |-> None, scan_angle |-> None]

Platforms == {"posix", "nt"}

(***************************************************************************)
(* The orbit propagator (skyfield, an external collaborator) is a          *)
(* deterministic mock: the satellite moves along a polar great circle, one *)
(* quarter of the circle per tick, at a constant altitude.                 *)
(***************************************************************************)
MockAltKm == 5

subpoint(t) ==
    LET q == t % 4
    IN  [lat_deg |-> CASE q = 1 -> 90 [] q = 3 -> -90 [] OTHER -> 0,
         lon_deg |-> IF q = 2 THEN 180 ELSE 0,
         alt_km  |-> MockAltKm]

\* Azimuth, elevation and range of the satellite from the observer, in units
\* of 1e-4 degree and 1e-4 km.
altaz(t) ==
    LET q == t % 4
    IN  [az |-> 1234567 + q, el |-> 100004 * (q + 1), dist |-> 7000000 + 15 * q]

(***************************************************************************)
(* Time conversion.                                                        *)
(***************************************************************************)
\* datetime.fromtimestamp(posix_ts, tz=utc): the calendar fields of a finite
\* number, here the whole seconds since the epoch and the microseconds.
calendar(t) == [second |-> t \div TicksPerSec,
                microsecond |-> (t % TicksPerSec) * (1000000 \div TicksPerSec)]

\* to_sf_time: ts_sf.utc(..., dt.second + dt.microsecond/1e6), the instant
\* handed to the propagator, in ticks.
to_sf_time(t) ==
    LET dt == calendar(t)
    IN  dt.second * TicksPerSec + (dt.microsecond * TicksPerSec) \div 1000000

\* The pass script's ts.utc(..., dt.second): the microseconds are dropped.
pass_sf_time(t) == calendar(t).second * TicksPerSec

\* What datetime.fromtimestamp raises on a value, "ok" when it returns.  A
\* negative number converts on POSIX and raises OSError where the platform's
\* gmtime rejects it.
fromtimestamp(x, plat) ==
    CASE x.k = "str" -> "TypeError"
      [] x.k = "nan" -> "ValueError: NaN"
      [] x.k = "inf" -> "OverflowError"
      [] OTHER -> IF x.v < 0 /\ plat = "nt" THEN "OSError" ELSE "ok"

(***************************************************************************)
(* Haversine distance on the mock's grid (angles are multiples of 90       *)
(* degrees).                                                               *)
(***************************************************************************)
EarthRadiusKm == 6371

\* cos of a multiple of 90 degrees.
Cos90(d) == LET m == d % 360 IN CASE m = 0 -> 1 [] m = 180 -> -1 [] OTHER -> 0

\* The cosine taken where the sine is meant: 2 * cos(d/2)**2 = 1 + cos(d).
TwoCosSqHalf(d) == 1 + Cos90(d)

\* 2 * sin(d/2)**2 = 1 - cos(d).
TwoSinSqHalf(d) == 1 - Cos90(d)

\* 2 * asin(sqrt(a)) in units of 1e-4 radian, from 2a in {0, 1, 2}.
CentralAngle(twoA) == CASE twoA = 0 -> 0 [] twoA = 1 -> 15708 [] OTHER -> 31416

haversine_km(lat1, lon1, lat2, lon2) ==
    LET dphi == lat2 - lat1
        dlambda == lon2 - lon1
        twoA == TwoSinSqHalf(dphi) + Cos90(lat1) * Cos90(lat2) * TwoSinSqHalf(dlambda)
    IN  (EarthRadiusKm * CentralAngle(twoA)) \div 10000

(***************************************************************************)
(* compute_product_metrics, section by section.                            *)
(***************************************************************************)
\* Python truthiness of a float-or-None: None and 0.0 are false.
Truthy(o) == ~IsNone(o) /\ Get(o) # 0

\* The height counted over the entries the pass loop would keep.
image_height_of_valid(timestamps) == Len(SelectSeq(timestamps, Valid))

image_height_of(timestamps) == Len(timestamps)

\* The mid time taken as the middle sample, timestamps[len // 2].
mid_ts_of_middle_sample(timestamps) ==
    LET m == timestamps[(Len(timestamps) \div 2) + 1]
    IN  IF m.k = "num" THEN Num(m.v) ELSE m

\* 0.5 * (timestamps[0] + timestamps[-1]): a string operand raises TypeError
\* (kind "str"), NaN and infinity propagate.  The sum of two of the model's
\* finite timestamps is even, so the halving is exact.
mid_ts_of(timestamps) ==
    LET a == timestamps[1]
        b == timestamps[Len(timestamps)]
    IN  CASE a.k = "str" \/ b.k = "str" -> Str
          [] a.k = "nan" \/ b.k = "nan" -> NaN
          [] a.k = "inf" \/ b.k = "inf" -> Inf
          [] OTHER -> Num((a.v + b.v) \div 2)

\* tle = product.get('tle', {}); not line1 or not line2
tle_lines_missing(tle) ==
    IsNone(tle) \/ Get(tle).line1 # "ok" \/ Get(tle).line2 # "ok"

scan_angle_of(proj) == IF IsNone(proj.scan_angle) THEN 0 ELSE Get(proj.scan_angle)

\* tan(radians(scan_angle_deg / 2.0)) in units of 1e-4.
TanHalf(scan) == IF scan = 90 THEN 10000 ELSE 0

swath_km_of(scan, alt_km) ==
    IF scan # 0 THEN Some((2 * alt_km * TanHalf(scan)) \div 10000) ELSE None

\* image_width # 0 where this is evaluated with a truthy swath.
pix_across_m_of(swath_km, image_width) ==
    IF Truthy(swath_km) THEN Some((Get(swath_km) * 1000) \div image_width) ELSE None

area_km2_of(swath_km, along_km) ==
    IF Truthy(swath_km) THEN Some(Get(swath_km) * along_km) ELSE None

per_pixel_km2_of(pix_along_m, pix_across_m) ==
    IF Truthy(pix_across_m) THEN Some((pix_along_m * Get(pix_across_m)) \div 1000000) ELSE None

\* float(scan_angle_deg) without the gate.
fov_deg_of_ungated(scan) == Some(scan)

fov_deg_of(scan) == IF scan # 0 THEN Some(scan) ELSE None

\* float(x) if x else None, in the assembled record.
out_float(x) == IF Truthy(x) THEN x ELSE None

Failure(exc, calls, built) ==
    [outcome |-> exc, metrics |-> None, calls |-> calls, sat_built |-> built]

\* Lines 60-104, after the three propagator calls.
assemble(proj, image_width, image_height, mid_ts, sub_mid, sub0, subN, calls) ==
    LET along_km == haversine_km(sub0.lat_deg, sub0.lon_deg, subN.lat_deg, subN.lon_deg)
        pix_along_m == (along_km * 1000) \div image_height
        scan == scan_angle_of(proj)
        swath_km == swath_km_of(scan, sub_mid.alt_km)
    IN  IF Truthy(swath_km) /\ image_width = 0
        THEN Failure("ZeroDivisionError", calls, TRUE)
        ELSE LET pix_across_m == pix_across_m_of(swath_km, image_width)
                 area_km2 == area_km2_of(swath_km, along_km)
                 per_pixel_km2 == per_pixel_km2_of(pix_along_m, pix_across_m)
             IN  [outcome |-> "ok",
                  metrics |-> Some(
                     [image_width_px |-> image_width,
                      image_height_px |-> image_height,
                      mid_datetime |-> calendar(mid_ts),
                      mid_subpoint |-> sub_mid,
                      first_subpoint |-> [lat_deg |-> sub0.lat_deg, lon_deg |-> sub0.lon_deg],
                      last_subpoint |-> [lat_deg |-> subN.lat_deg, lon_deg |-> subN.lon_deg],
                      along_track_length_km |-> along_km,
                      along_track_pixel_size_m |-> pix_along_m,
                      across_track_swath_km |-> out_float(swath_km),
                      across_track_pixel_size_m |-> out_float(pix_across_m),
                      total_ground_area_km2 |-> out_float(area_km2),
                      per_pixel_area_km2 |-> out_float(per_pixel_km2),
                      fov_deg |-> fov_deg_of(scan)]),
                  calls |-> calls,
                  sat_built |-> TRUE]

\* Lines 40-58: the propagator is asked for the mid, first and last subpoints.
propagate(proj, image_width, timestamps, mid_ts, plat) ==
    LET first == timestamps[1]
        last == timestamps[Len(timestamps)]
        tmid == to_sf_time(mid_ts)
    IN  IF fromtimestamp(first, plat) # "ok"
        THEN Failure(fromtimestamp(first, plat), <<tmid>>, TRUE)
        ELSE IF fromtimestamp(last, plat) # "ok"
        THEN Failure(fromtimestamp(last, plat), <<tmid, to_sf_time(first.v)>>, TRUE)
        ELSE LET t0 == to_sf_time(first.v)
                 tN == to_sf_time(last.v)
             IN  assemble(proj, image_width, image_height_of(timestamps), mid_ts,
                          subpoint(tmid), subpoint(t0), subpoint(tN), <<tmid, t0, tN>>)

compute_product_metrics(p, plat) ==
    LET proj == p.projection_cfg
        timestamps == IF IsNone(p.timestamps) THEN <<>> ELSE Get(p.timestamps)
    IN  IF IsNone(proj.image_width)
        THEN Failure("TypeError: int(None)", <<>>, FALSE)
        ELSE IF image_height_of(timestamps) = 0
        THEN Failure("ValueError: no timestamps found", <<>>, FALSE)
        ELSE LET mid == mid_ts_of(timestamps)
             IN  IF fromtimestamp(mid, plat) # "ok"
                 THEN Failure(fromtimestamp(mid, plat), <<>>, FALSE)
                 ELSE IF tle_lines_missing(p.tle)
                 THEN Failure("ValueError: TLE lines missing", <<>>, FALSE)
                 ELSE propagate(proj, Get(proj.image_width), timestamps, mid.v, plat)

(***************************************************************************)
(* The pass-geometry script.                                               *)
(***************************************************************************)
\* if not tle: a missing key (None) and an empty dict are both false.
tle_falsy(tle) ==
    IsNone(tle) \/
    (Get(tle).name = "absent" /\ Get(tle).line1 = "absent" /\ Get(tle).line2 = "absent")

\* The name defaulted as in compute_product_metrics, tle.get('name', 'sat').
tle_key_missing_name_defaulted(tle) ==
    Get(tle).line1 = "absent" \/ Get(tle).line2 = "absent"

\* tle['line1'], tle['line2'], tle['name']: a missing key raises KeyError.
tle_key_missing(tle) ==
    Get(tle).line1 = "absent" \/ Get(tle).line2 = "absent" \/ Get(tle).name = "absent"

\* A line that is present and empty reaches EarthSatellite, which may reject it.
tle_line_empty(tle) == Get(tle).line1 = "empty" \/ Get(tle).line2 = "empty"

\* if not timestamps: a missing key and an empty list are both false.
timestamps_falsy(ts) == IsNone(ts) \/ Len(Get(ts)) = 0

\* if not isinstance(t, (int, float)) or t < 0: continue
\* NaN and infinity are floats and are not < 0, so they are not skipped.
skipped(t) == t.k = "str" \/ (t.k = "num" /\ t.v < 0)

\* round(x, 3) of a value in units of 1e-4.
Round3(x) == ((x + 5) \div 10) * 10

\* The record appended for a finite non-negative timestamp t (in ticks).
pass_record(t) ==
    LET dt == calendar(t)
        t_sf == pass_sf_time(t)
        look == altaz(t_sf)
        sp == subpoint(t_sf)
    IN  [Timestamp |-> dt.second,
         Azimuth |-> Round3(look.az),
         Elevation |-> Round3(look.el),
         Distance |-> Round3(look.dist),
         Lat |-> sp.lat_deg * 10000,
         Lon |-> sp.lon_deg * 10000]

(***************************************************************************)
(* State machine.  product is the decoded input record; footprint is the   *)
(* result of compute_product_metrics once it has been called; pc, i,       *)
(* records, outcome and exported are the pass script's position, loop      *)
(* index, records list, termination cause and the list handed to the       *)
(* DataFrame.                                                              *)
(***************************************************************************)
Products ==
    {[tle |-> t, timestamps |-> ts, projection_cfg |-> pr] :
        t \in TleInputs, ts \in TimestampInputs, pr \in ProjInputs}

PassProducts ==
    {[tle |-> t, timestamps |-> ts, projection_cfg |-> NoProj] :
        t \in TleInputs, ts \in TimestampInputs}

Idle ==
    /\ footprint = None
    /\ pc = "idle"
    /\ i = 0
    /\ records = <<>>
    /\ outcome = "none"
    /\ exported = None

InitFootprint == product \in Products /\ Idle

InitPass == product \in PassProducts /\ Idle

\* metrics = compute_product_metrics(product)
ComputeFootprint ==
    /\ footprint = None
    /\ \E plat \in Platforms : footprint' = Some(compute_product_metrics(product, plat))
    /\ UNCHANGED <<product, pc, i, records, outcome, exported>>

\* Lines 46-60: the TLE and the timestamps are extracted, the satellite built.
PassExtract ==
    /\ pc = "idle"
    /\ \E accepted \in BOOLEAN :
          LET stop ==
                CASE tle_falsy(product.tle) -> "exit: No TLE found"
                  [] tle_key_missing(product.tle) -> "KeyError"
                  [] tle_line_empty(product.tle) /\ ~accepted -> "PropagatorError"
                  [] timestamps_falsy(product.timestamps) -> "exit: No timestamps found"
                  [] OTHER -> "none"
          IN  /\ pc' = IF stop = "none" THEN "loop" ELSE "failed"
              /\ outcome' = stop
              /\ i' = IF stop = "none" THEN 1 ELSE i
    /\ UNCHANGED <<product, footprint, records, exported>>

\* One iteration of "for t in timestamps".
PassIter ==
    /\ pc = "loop"
    /\ i <= Len(Get(product.timestamps))
    /\ LET t == Get(product.timestamps)[i]
       IN  IF skipped(t)
           THEN /\ i' = i + 1
                /\ UNCHANGED <<pc, records, outcome>>
           ELSE IF fromtimestamp(t, "posix") # "ok"
           THEN /\ pc' = "failed"
                /\ outcome' = fromtimestamp(t, "posix")
                /\ UNCHANGED <<i, records>>
           ELSE /\ records' = Append(records, pass_record(t.v))
                /\ i' = i + 1
                /\ UNCHANGED <<pc, outcome>>
    /\ UNCHANGED <<product, footprint, exported>>

\* df = pd.DataFrame(records): the records are handed to the export.
PassExport ==
    /\ pc = "loop"
    /\ i > Len(Get(product.timestamps))
    /\ pc' = "done"
    /\ outcome' = "ok"
    /\ exported' = Some(records)
    /\ UNCHANGED <<product, footprint, i, records>>

NextFootprint == ComputeFootprint

NextPass == PassExtract \/ PassIter \/ PassExport

SpecFootprint == InitFootprint /\ [][NextFootprint]_vars

SpecPass == InitPass /\ [][NextPass]_vars

Init == InitFootprint

Next == NextFootprint \/ NextPass

Spec == Init /\ [][Next]_vars

(***************************************************************************)
(* Vocabulary of the properties.                                           *)
(***************************************************************************)
Series == IF IsNone(product.timestamps) THEN <<>> ELSE Get(product.timestamps)

TleComplete ==
    /\ ~IsNone(product.tle)
    /\ Get(product.tle).name = "ok"
    /\ Get(product.tle).line1 = "ok"
    /\ Get(product.tle).line2 = "ok"

FootprintDone == footprint # None
Result == Get(footprint)
Returned == FootprintDone /\ Result.outcome = "ok"
Metrics == Get(Result.metrics)

\* What the timestamp arithmetic and conversions raise on a malformed value.
InvalidTimestamp ==
    {"TypeError", "ValueError: NaN", "OverflowError", "OSError"}

EmptyTimestampSeries == "ValueError: no timestamps found"

MissingTLE == "ValueError: TLE lines missing"

PassMissingTLE == {"exit: No TLE found", "KeyError"}

PassEmptyTimestampSeries == "exit: No timestamps found"

PassEnded == pc \in {"done", "failed"}

RECURSIVE ExpectedRecords(_)
ExpectedRecords(ts) ==
    IF Len(ts) = 0 THEN <<>>
    ELSE IF Valid(Head(ts)) THEN <<pass_record(Head(ts).v)>> \o ExpectedRecords(Tail(ts))
    ELSE ExpectedRecords(Tail(ts))

\* C1: with a complete TLE and a non-empty timestamp series the pass loop ends
\* normally and hands over exactly the records of the finite non-negative
\* entries, in input order (an empty sequence when there is none).
C1_OneRecordPerValidEntry ==
    (PassEnded /\ TleComplete /\ Len(Series) > 0)
        => (pc = "done" /\ records = ExpectedRecords(Series) /\ exported = Some(records))

AcrossFields(m) ==
    {m.across_track_swath_km, m.across_track_pixel_size_m,
     m.total_ground_area_km2, m.per_pixel_area_km2}

\* C2: in every record returned for a series of valid timestamps the four
\* across-track fields are null together when scan_angle is zero or absent and
\* non-null together when scan_angle > 0.
C2_AcrossTrackSingleGate ==
    (Returned /\ \A k \in 1..Len(Series) : Valid(Series[k])) =>
        IF scan_angle_of(product.projection_cfg) = 0
        THEN \A f \in AcrossFields(Metrics) : IsNone(f)
        ELSE \A f \in AcrossFields(Metrics) : ~IsNone(f)

\* C3: with an otherwise well-formed input, a first or last timestamp that is
\* not a finite non-negative number makes compute_product_metrics fail with
\* an invalid-timestamp error and return no record.
C3_MalformedEndpointIsFatal ==
    (/\ FootprintDone
     /\ TleComplete
     /\ ~IsNone(product.projection_cfg.image_width)
     /\ Len(Series) > 0
     /\ (~Valid(Series[1]) \/ ~Valid(Series[Len(Series)])))
        => (Result.outcome \in InvalidTimestamp /\ IsNone(Result.metrics))

\* C4: an empty or absent timestamp series makes compute_product_metrics fail
\* with "no timestamps found", whatever the TLE and the projection
\* configuration, with no propagator call and no record.
C4_EmptySeriesFails ==
    (FootprintDone /\ Len(Series) = 0)
        => (/\ Result.outcome = EmptyTimestampSeries
            /\ Result.calls = <<>>
            /\ IsNone(Result.metrics))

\* C5: with a non-empty series of valid timestamps, an absent TLE or an absent
\* or empty line1 or line2 makes compute_product_metrics fail with "TLE lines
\* missing" before the satellite is built or the propagator called.
C5_MissingTleFails ==
    (/\ FootprintDone
     /\ Len(Series) > 0
     /\ \A k \in 1..Len(Series) : Valid(Series[k])
     /\ tle_lines_missing(product.tle))
        => (/\ Result.outcome = MissingTLE
            /\ ~Result.sat_built
            /\ Result.calls = <<>>
            /\ IsNone(Result.metrics))

\* The same with an integer image_width in the projection configuration.
C5_MissingTleFailsGivenWidth ==
    ~IsNone(product.projection_cfg.image_width) => C5_MissingTleFails

TleMissingPart ==
    \/ IsNone(product.tle)
    \/ Get(product.tle).name = "absent"
    \/ Get(product.tle).line1 = "absent"
    \/ Get(product.tle).line2 = "absent"

NothingProcessed ==
    /\ pc = "failed"
    /\ i = 0
    /\ records = <<>>
    /\ exported = None

\* C6: in the pass script a TLE that is absent or lacks name, line1 or line2
\* stops the run as a missing TLE, and with a complete TLE a series of zero
\* elements stops it as an empty series; either way no timestamp has been
\* processed, no record exists and nothing is handed to the export.
C6_PassFailsBeforeProcessing ==
    /\ (pc # "idle" /\ TleMissingPart)
          => (NothingProcessed /\ outcome \in PassMissingTLE)
    /\ (pc # "idle" /\ TleComplete /\ Len(Series) = 0)
          => (NothingProcessed /\ outcome = PassEmptyTimestampSeries)

\* A TLE without line2 stops the run although the series holds valid entries.
C6_Witness ==
    /\ pc = "failed"
    /\ outcome = "KeyError"
    /\ ~IsNone(product.tle)
    /\ Get(product.tle).line1 = "ok"
    /\ Get(product.tle).line2 = "absent"
    /\ Len(Series) = 2
    /\ Valid(Series[1])

\* C7: in every returned record image_height_px is the length of the input
\* series, malformed intermediate entries included, and
\* along_track_pixel_size_m is the along-track length in metres divided by it.
C7_HeightIsSeriesLength ==
    Returned =>
        /\ Metrics.image_height_px = Len(Series)
        /\ Metrics.along_track_pixel_size_m
              = (Metrics.along_track_length_km * 1000) \div Len(Series)

\* A record is returned for a three-element series whose middle entry is
\* malformed and whose ends are apart.
C7_Witness ==
    /\ Returned
    /\ Len(Series) = 3
    /\ ~Valid(Series[2])
    /\ Metrics.along_track_length_km > 0

\* C8: a single valid timestamp with scan_angle 0 (and a usable TLE and image
\* width) returns a record with image_height_px = 1, along-track length and
\* pixel size 0 and the four across-track fields null: no division by zero.
C8_SingleSample ==
    (/\ FootprintDone
     /\ Len(Series) = 1
     /\ Valid(Series[1])
     /\ scan_angle_of(product.projection_cfg) = 0
     /\ ~IsNone(product.projection_cfg.image_width)
     /\ ~tle_lines_missing(product.tle))
        => (/\ Result.outcome = "ok"
            /\ Metrics.image_height_px = 1
            /\ Metrics.along_track_length_km = 0
            /\ Metrics.along_track_pixel_size_m = 0
            /\ \A f \in AcrossFields(Metrics) : IsNone(f))

C8_Witness ==
    /\ Returned
    /\ Series = <<Num(2)>>
    /\ product.projection_cfg.scan_angle = Some(0)
    /\ Metrics.first_subpoint = Metrics.last_subpoint

\* C9: in every returned record fov_deg is the configured scan_angle when it is
\* present and non-zero and null when it is zero or absent; fov_deg is non-null
\* whenever across_track_swath_km is.
C9_FovIsScanAngle ==
    Returned =>
        LET scan == product.projection_cfg.scan_angle
        IN  /\ (~IsNone(scan) /\ Get(scan) # 0) => Metrics.fov_deg = scan
            /\ (IsNone(scan) \/ Get(scan) = 0) => IsNone(Metrics.fov_deg)
            /\ ~IsNone(Metrics.across_track_swath_km) => ~IsNone(Metrics.fov_deg)

C9_Witness ==
    /\ Returned
    /\ product.projection_cfg.scan_angle = Some(90)
    /\ Metrics.fov_deg = Some(90)
    /\ ~IsNone(Metrics.across_track_swath_km)

\* Series of the same length, first and last element as ts.
SameEnds(ts) ==
    LET n == Len(ts)
    IN  {[k \in 1..n |-> IF k = 1 THEN ts[1] ELSE IF k = n THEN ts[n] ELSE m[k]] :
            m \in [2..(n - 1) -> TsValues]}

\* C10: a returned record rests on exactly three propagator queries, at the
\* first timestamp, the last and their arithmetic mean (the element itself for
\* a single-element series), so every series with the same first element, last
\* element and length that returns a record returns the same one.
C10_MidIsMeanOfEnds ==
    Returned =>
        LET first == Series[1].v
            last == Series[Len(Series)].v
        IN  /\ Len(Result.calls) = 3
            /\ 2 * Result.calls[1] = first + last
            /\ Result.calls[2] = first
            /\ Result.calls[3] = last
            /\ Metrics.mid_datetime = calendar(Result.calls[1])
            /\ Len(Series) = 1 => Result.calls[1] = first
            /\ \A alt \in SameEnds(Series), plat \in Platforms :
                  LET other == compute_product_metrics(
                                  [product EXCEPT !.timestamps = Some(alt)], plat)
                  IN  other.outcome = "ok" => other = Result

\* A record is returned for a series whose middle sample is neither end and
\* differs from the mean of the ends.
C10_Witness ==
    /\ Returned
    /\ Series = <<Num(0), Num(2), Num(2)>>
    /\ Result.calls[1] = 1

====
